---- MODULE Spec2Model ----
(***************************************************************************)
(* Backtester (src/core/backtester.py) driven by a Strategy                *)
(* (src/core/strategies.py): Spec.  The RSI strategies on their own:       *)
(* OscillatorSpec.  The Backtester of src/backtester.py: ScriptSpec.  The  *)
(* callbacks run_optimizer and run_backtest of src/dashboard.py:           *)
(* OptimizerSpec and CallbackSpec.                                         *)
(*                                                                         *)
(* Money is counted in thousandths of a dollar, so that a closing price    *)
(* can carry a fraction of a cent and round(x, 2) is a real conversion.    *)
(* Rows of the data frame are numbered 1..n here; row t of the model is    *)
(* row t-1 (iloc[t-1]) of the code.                                        *)
(***************************************************************************)
EXTENDS Integers, Sequences, FiniteSets, TLC

\* ------------------------------------------------------------------ bounds
MaxDays == 4
MaxPrice == 2
MaxCash == 2
MaxWindow == 2
MaxRuns == 2

\* closing prices the data provider may deliver: $1.01, $1.135, $0.50, ...
\* On these values round() in binary floating point and the decimal
\* round-half-even of RoundHalfEven give the same results.
PriceSamples == <<1010, 1135, 500, 2000, 3000>>
Prices == {PriceSamples[k] : k \in 1..MaxPrice}
\* $0.10, $0.20, ...: a share may cost more than the cash at hand
InitialCashes == {100 * k : k \in 1..MaxCash}
CloseSeries == UNION {[1..n -> Prices] : n \in 1..MaxDays}

VARIABLES strategy, initial_cash, df, pc, i, cash, quantity,
          cash_history, holdings_history, total_history,
          generate_calls, result, stores, optimizer

vars == <<strategy, initial_cash, df, pc, i, cash, quantity,
          cash_history, holdings_history, total_history,
          generate_calls, result, stores, optimizer>>

\* the Backtester object and the call in progress on it
backtester == <<strategy, initial_cash, df, pc, i, cash, quantity,
                cash_history, holdings_history, total_history,
                generate_calls, result>>

\* the page of src/dashboard.py: the properties its callbacks write, and the
\* locals of a run_optimizer call in progress
dashboard == <<stores, optimizer>>

\* -------------------------------------------------------- pandas helpers
\* self.df is None
None == [None |-> TRUE]

\* df[name] = v  (adds the column or replaces it)
SetCol(d, name, v) == (name :> v) @@ d

HasCol(d, name) == name \in DOMAIN d

RECURSIVE SumTo(_, _)
\* s[1] + ... + s[k]
SumTo(s, k) == IF k = 0 THEN 0 ELSE SumTo(s, k - 1) + s[k]

\* series.shift(1).fillna(0): the first row has no predecessor
ShiftFill(s) == [t \in 1..Len(s) |-> IF t = 1 THEN 0 ELSE s[t - 1]]

\* series.diff().fillna(0): the first row has no predecessor
DiffFill(s) == [t \in 1..Len(s) |-> IF t = 1 THEN 0 ELSE s[t] - s[t - 1]]

\* series.rolling(window=w) is defined on row t only with w rows of history
RollingDefined(w, t) == t >= w

\* sum of the w rows ending at row t
RollingSum(s, w, t) == SumTo(s, t) - SumTo(s, t - w)

\* round(num / den) to the nearest integer, den > 0, a tie going to the even
\* neighbour as Python's round() does
RoundHalfEven(num, den) ==
    LET q == num \div den
        r == num % den
    IN  IF 2 * r > den THEN q + 1
        ELSE IF 2 * r < den THEN q
        ELSE IF q % 2 = 0 THEN q ELSE q + 1

\* round(x, 2) of an amount x in thousandths: a whole number of cents
Round2(x) == 10 * RoundHalfEven(x, 10)

\* a / b <= c / d for fractions <<a, b>>, <<c, d>> with b, d > 0
FracLeq(x, y) == x[1] * y[2] <= y[1] * x[2]

RECURSIVE RunningMin(_, _)
\* variant: cummin() in place of cummax()
RunningMin(total, t) ==
    IF t = 1 THEN total[1]
    ELSE LET m == RunningMin(total, t - 1)
         IN  IF total[t] < m THEN total[t] ELSE m

RECURSIVE RunningMax(_, _)
\* Total.cummax() at row t
RunningMax(total, t) ==
    IF t = 1 THEN total[1]
    ELSE LET m == RunningMax(total, t - 1)
         IN  IF total[t] > m THEN total[t] ELSE m

\* Total / running_max - 1, row by row, as exact fractions
DrawdownOf(total) ==
    [t \in 1..Len(total) |->
        <<total[t] - RunningMax(total, t), RunningMax(total, t)>>]

\* series.min() of a column of fractions: the first row holding the least
SeriesMin(s) ==
    LET least == {t \in 1..Len(s) : \A u \in 1..Len(s) : FracLeq(s[t], s[u])}
    IN  s[CHOOSE t \in least : \A u \in least : t <= u]

\* ------------------------------------------------------------ strategies
CustomStrategies ==
    {[kind |-> "Custom", signal |-> s] : s \in [1..MaxDays -> {0, 1}]}

MACStrategies ==
    {[kind |-> "MAC", short_window |-> a, long_window |-> b] :
        a \in 1..MaxWindow, b \in 1..MaxWindow}

\* variant: the short average need only reach the long one
MACSignalNonStrict(close, short, long) ==
    [t \in 1..Len(close) |->
        IF /\ RollingDefined(short, t)
           /\ RollingDefined(long, t)
           /\ RollingSum(close, short, t) * long
                >= RollingSum(close, long, t) * short
        THEN 1 ELSE 0]

\* MovingAverageCrossoverStrategy: (SMA_short > SMA_long).astype(float);
\* a comparison with an undefined average is False.  The two means are
\* compared exactly: sum_s / short > sum_l / long.
MACSignal(close, short, long) ==
    [t \in 1..Len(close) |->
        IF /\ RollingDefined(short, t)
           /\ RollingDefined(long, t)
           /\ RollingSum(close, short, t) * long
                > RollingSum(close, long, t) * short
        THEN 1 ELSE 0]

\* a Strategy subclass that answers a given {0,1} column
CustomSignal(close, table) == [t \in 1..Len(close) |-> table[t]]

\* a float: NaN, +inf, or the finite value v, an exact fraction
\* <<numerator, denominator>> with a positive denominator
NaN == [nan |-> TRUE, inf |-> FALSE, v |-> <<0, 1>>]

PosInf == [nan |-> FALSE, inf |-> TRUE, v |-> <<0, 1>>]

Float(v) == [nan |-> FALSE, inf |-> FALSE, v |-> v]

\* delta.where(delta > 0, 0): the first row's delta is NaN and becomes 0
GainOf(close) ==
    [t \in 1..Len(close) |->
        IF t > 1 /\ close[t] > close[t - 1]
        THEN close[t] - close[t - 1] ELSE 0]

\* -delta.where(delta < 0, 0)
LossOf(close) ==
    [t \in 1..Len(close) |->
        IF t > 1 /\ close[t] < close[t - 1]
        THEN close[t - 1] - close[t] ELSE 0]

\* rs = avg_gain / avg_loss in float arithmetic: x / 0 is +inf for x > 0
\* and 0 / 0 is NaN, no exception.  The two averages are rolling means
\* over the same window, so their quotient is that of the rolling sums
\* g and l; a finite rs is kept as the exact fraction <<g, l>>.
RelativeStrength(g, l) ==
    IF l = 0 THEN (IF g = 0 THEN NaN ELSE PosInf)
    ELSE Float(<<g, l>>)

\* 100 - (100 / (1 + rs)), a finite value kept as an exact fraction:
\* 100 - 100 / (1 + g / l) = 100 * g / (g + l)
RSIFrom(rs) ==
    IF rs.nan THEN NaN
    ELSE IF rs.inf THEN Float(<<100, 1>>)
    ELSE Float(<<100 * rs.v[1], rs.v[1] + rs.v[2]>>)

\* the RSI column: NaN until the window has `period` rows
RSIOf(close, period) ==
    [t \in 1..Len(close) |->
        IF RollingDefined(period, t)
        THEN RSIFrom(RelativeStrength(
                RollingSum(GainOf(close), period, t),
                RollingSum(LossOf(close), period, t)))
        ELSE NaN]

\* x < thresh for a column value x; a comparison with NaN is False
Below(x, thresh) == ~x.nan /\ x.v[1] < thresh * x.v[2]

\* x > thresh
Above(x, thresh) == ~x.nan /\ x.v[1] > thresh * x.v[2]

\* core RSIStrategy: `df["RSI"] < 30`
RSIEntry == 30

\* core RSIStrategy: Signal = (RSI < 30).astype(float)
RSISignal(close, period) ==
    LET rsi == RSIOf(close, period)
    IN  [t \in 1..Len(close) |-> IF Below(rsi[t], RSIEntry) THEN 1 ELSE 0]

\* RSIStrategy of src/backtester.py: Signal starts as 0.0 on every row, is
\* set to 1.0 where RSI < lower_thresh and then to 0.0 where
\* RSI > upper_thresh; the column has no NaN, so ffill().fillna(0) leaves
\* it as it is
ThresholdSignal(close, rsi_window, lower_thresh, upper_thresh) ==
    LET rsi == RSIOf(close, rsi_window)
    IN  [t \in 1..Len(close) |->
            IF Above(rsi[t], upper_thresh) THEN 0
            ELSE IF Below(rsi[t], lower_thresh) THEN 1
            ELSE 0]

\* variant: the averages are taken over the last column of the frame, which
\* is Close only until a run has added its own columns
SignalOfLastColumn(strat, d) ==
    LET series == IF HasCol(d, "Total") THEN d.Total ELSE d.Close
    IN  IF strat.kind = "MAC"
        THEN MACSignal(series, strat.short_window, strat.long_window)
        ELSE CustomSignal(d.Close, strat.signal)

\* the Signal column the strategy computes from the frame it is given
SignalOf(strat, d) ==
    IF strat.kind = "MAC"
    THEN MACSignal(d.Close, strat.short_window, strat.long_window)
    ELSE IF strat.kind = "RSI"
    THEN RSISignal(d.Close, strat.period)
    ELSE IF strat.kind = "ThresholdRSI"
    THEN ThresholdSignal(d.Close, strat.rsi_window, strat.lower_thresh,
                         strat.upper_thresh)
    ELSE CustomSignal(d.Close, strat.signal)

\* strategy.generate_signals(df): works on a copy, keeps every column the
\* frame already has, sets Signal and its own Position (= Signal.diff())
generate_signals(strat, d) ==
    LET sig == SignalOf(strat, d)
        out == SetCol(SetCol(d, "Signal", sig), "Position", DiffFill(sig))
    IN  IF strat.kind = "RSI"
        THEN SetCol(out, "RSI", RSIOf(d.Close, strat.period))
        ELSE IF strat.kind = "ThresholdRSI"
        THEN SetCol(out, "RSI", RSIOf(d.Close, strat.rsi_window))
        ELSE out

\* ------------------------------------------------------------ Backtester
\* what the last call came to: its return value or the exception it raised
NoResult == [op |-> "", raised |-> "", value |-> <<>>]

Returned(op, v) == [op |-> op, raised |-> "", value |-> v]

Raised(op, err) == [op |-> op, raised |-> err, value |-> <<>>]

\* variant: the run raises only when the frame is first used
RunPreconditionLate(d) == IF d = None THEN "AttributeError" ELSE ""

\* `if self.df is None: raise ValueError(...)`: the exception run() starts
\* with, "" when it goes on
RunPrecondition(d) == IF d = None THEN "ValueError" ELSE ""

\* variant: the signal is acted on the day it is observed (no shift)
PositionNoLag(signal) == signal

\* Position = Signal.shift(1).fillna(0).astype(int)
PositionOf(signal) == ShiftFill(signal)

\* variant: diff(-1), the change towards the next row
TradeLookAhead(position) ==
    [t \in 1..Len(position) |->
        IF t = Len(position) THEN 0 ELSE position[t + 1] - position[t]]

\* variant: every change of position counts as a purchase
TradeUnsigned(position) ==
    [t \in 1..Len(position) |->
        IF t = 1 \/ position[t] = position[t - 1] THEN 0 ELSE 1]

\* Trade = Position.diff().fillna(0)
TradeOf(position) == DiffFill(position)

\* variant: the cost of a trade is added to the cash
WalkStepSignSlip(st, trade, price) ==
    LET q == st.quantity + trade
        c == st.cash + trade * price
        holdings == q * price
        total == c + holdings
    IN  [quantity |-> q,
         cash |-> c,
         cash_history |-> Append(st.cash_history, c),
         holdings_history |-> Append(st.holdings_history, holdings),
         total_history |-> Append(st.total_history, total)]

\* variant: the holdings are valued with the quantity held before the trade
WalkStepStaleHoldings(st, trade, price) ==
    LET q == st.quantity + trade
        c == st.cash - trade * price
        holdings == st.quantity * price
        total == c + holdings
    IN  [quantity |-> q,
         cash |-> c,
         cash_history |-> Append(st.cash_history, c),
         holdings_history |-> Append(st.holdings_history, holdings),
         total_history |-> Append(st.total_history, total)]

\* one pass of the loop body of run() for a row with this trade and price
WalkStep(st, trade, price) ==
    LET q == st.quantity + trade
        c == st.cash - trade * price
        holdings == q * price
        total == c + holdings
    IN  [quantity |-> q,
         cash |-> c,
         cash_history |-> Append(st.cash_history, c),
         holdings_history |-> Append(st.holdings_history, holdings),
         total_history |-> Append(st.total_history, total)]

\* the locals of run() before the loop
WalkStart(ic) ==
    [quantity |-> 0, cash |-> ic, cash_history |-> <<>>,
     holdings_history |-> <<>>, total_history |-> <<>>]

RECURSIVE WalkTo(_, _, _, _)
\* the locals of run() after the first k iterations of the loop
WalkTo(trade, close, ic, k) ==
    IF k = 0 THEN WalkStart(ic)
    ELSE WalkStep(WalkTo(trade, close, ic, k - 1), trade[k], close[k])

\* the ledger run() computes from a Signal column: lines 33-62 as a function
RunOn(close, signal, ic) ==
    LET position == PositionOf(signal)
        trade == TradeOf(position)
        st == WalkTo(trade, close, ic, Len(close))
    IN  [Position |-> position, Trade |-> trade, Cash |-> st.cash_history,
         Holdings |-> st.holdings_history, Total |-> st.total_history]

\* Total.pct_change().fillna(0), each return kept as the exact fraction
\* <<numerator, denominator>>; x/0 is +-inf (denominator 0), 0/0 is NaN and
\* is filled with 0
ReturnsOf(total) ==
    [t \in 1..Len(total) |->
        IF t = 1 THEN <<0, 1>>
        ELSE IF total[t - 1] = 0
             THEN (IF total[t] = 0 THEN <<0, 1>>
                   ELSE IF total[t] > 0 THEN <<1, 0>> ELSE <<-1, 0>>)
             ELSE <<total[t] - total[t - 1], total[t - 1]>>]

\* evaluate(): cumulative return and maximum drawdown as exact fractions.
\* sharpe_ratio and volatility are the mean and standard deviation of the
\* Returns column and are carried by that column.
EvaluateOf(d, ic) ==
    [cumulative_return |-> <<d.Total[Len(d.Total)] - ic, ic>>,
     max_drawdown |-> SeriesMin(DrawdownOf(d.Total)),
     returns |-> d.Returns]

NoPnL == <<>>

RECURSIVE TradeLogWalk(_, _)
\* get_trade_log() after the rows 2..k (the code starts at iloc[1]):
\* the entries logged so far and the open Buy, <<>> when there is none
TradeLogWalk(d, k) ==
    IF k <= 1 THEN [logs |-> <<>>, open_trade |-> <<>>]
    ELSE LET prev == TradeLogWalk(d, k - 1)
             trade == d.Trade[k]
             price == d.Close[k]
         IN  IF trade = 1
             THEN LET buy == [Date |-> k, Action |-> "Buy",
                              Price |-> Round2(price), Quantity |-> 1,
                              PnL |-> NoPnL]
                  IN  [logs |-> Append(prev.logs, buy),
                       open_trade |-> <<buy>>]
             ELSE IF trade = -1 /\ prev.open_trade # <<>>
             THEN LET pnl == Round2(price - prev.open_trade[1].Price)
                      sell == [Date |-> k, Action |-> "Sell",
                               Price |-> Round2(price), Quantity |-> 1,
                               PnL |-> <<pnl>>]
                  IN  [logs |-> Append(prev.logs, sell),
                       open_trade |-> <<>>]
             ELSE prev

get_trade_log(d) == TradeLogWalk(d, Len(d.Close)).logs

\* win_loss_ratio is a float: a finite number of hundredths, or +inf
Finite(v) == [inf |-> FALSE, v |-> v]

Infinity == [inf |-> TRUE, v |-> 0]

IsSell(row) == row.Action = "Sell" /\ row.PnL # NoPnL

\* the P&L column of the Sell rows of a trade log
PnlsOf(log) ==
    LET sells == SelectSeq(log, IsSell)
    IN  [k \in 1..Len(sells) |-> sells[k].PnL[1]]

IsWin(p) == p > 0

IsLoss(p) == p < 0

\* evaluate_trades() on a trade log: avg_pnl in thousandths of a dollar,
\* win_rate in hundredths of a percent, win_loss_ratio in hundredths
EvaluateTradesOf(log) ==
    LET pnls == PnlsOf(log)
        wins == SelectSeq(pnls, IsWin)
        losses == SelectSeq(pnls, IsLoss)
    IN  IF Len(pnls) = 0
        THEN Returned("evaluate_trades", <<0, 0, Finite(0)>>)
        ELSE IF Len(losses) > 0 /\ Len(wins) = 0
        THEN Raised("evaluate_trades", "ZeroDivisionError")
        ELSE Returned("evaluate_trades",
                <<10 * RoundHalfEven(SumTo(pnls, Len(pnls)), 10 * Len(pnls)),
                  RoundHalfEven(Len(wins) * 10000, Len(pnls)),
                  IF Len(losses) > 0
                  THEN Finite(RoundHalfEven(
                          100 * SumTo(wins, Len(wins)) * Len(losses),
                          Len(wins) * (0 - SumTo(losses, Len(losses)))))
                  ELSE Infinity>>)

\* the page as it is served: no strategy chosen, no parameter row rendered,
\* every store and output empty
NoStores ==
    [strategy_dropdown |-> "", strategy_params |-> <<>>,
     stored_equity_figure |-> None, stored_signals_figure |-> None,
     stored_drawdown_figure |-> None, metrics_output |-> None,
     stored_trade_log |-> None, trade_log_output |-> None,
     optimization_output |-> None, best_params_store |-> None]

\* no run_optimizer call has been made: the locals of the call in
\* progress, or of the last one
NoOptimizer ==
    [running |-> FALSE, param_ranges |-> <<>>, combos |-> <<>>,
     results |-> <<>>]

IdleLocals ==
    /\ i' = 0
    /\ cash' = 0
    /\ quantity' = 0
    /\ cash_history' = <<>>
    /\ holdings_history' = <<>>
    /\ total_history' = <<>>

Init ==
    /\ \/ strategy \in CustomStrategies
       \/ strategy \in MACStrategies
    /\ initial_cash \in InitialCashes
    /\ df = None
    /\ pc = "idle"
    /\ i = 0
    /\ cash = 0
    /\ quantity = 0
    /\ cash_history = <<>>
    /\ holdings_history = <<>>
    /\ total_history = <<>>
    /\ generate_calls = 0
    /\ result = NoResult
    /\ stores = NoStores
    /\ optimizer = NoOptimizer

\* fetch_data(start, end): the provider answers a cleaned price frame.
\* Every caller (main.py, the dashboard callbacks, the grid search) builds a
\* Backtester, fetches once and then runs, so the frame is fetched once.
FetchData ==
    /\ pc = "idle"
    /\ df = None
    /\ \E close \in CloseSeries : df' = [Close |-> close]
    /\ result' = Returned("fetch_data", <<>>)
    /\ UNCHANGED <<strategy, initial_cash, pc, i, cash, quantity,
                   cash_history, holdings_history, total_history,
                   generate_calls>>
    /\ UNCHANGED dashboard

\* run(), up to the start of the loop
Run ==
    /\ pc = "idle"
    /\ IF RunPrecondition(df) # ""
       THEN /\ result' = Raised("run", RunPrecondition(df))
            /\ UNCHANGED <<strategy, initial_cash, df, pc, i, cash, quantity,
                           cash_history, holdings_history, total_history,
                           generate_calls>>
       ELSE /\ generate_calls < MaxRuns
            /\ LET d1 == generate_signals(strategy, df)
                   d2 == SetCol(d1, "Position", PositionOf(d1.Signal))
                   d3 == SetCol(d2, "Trade", TradeOf(d2.Position))
                   st == WalkStart(initial_cash)
               IN  /\ df' = d3
                   /\ cash' = st.cash
                   /\ quantity' = st.quantity
                   /\ cash_history' = st.cash_history
                   /\ holdings_history' = st.holdings_history
                   /\ total_history' = st.total_history
            /\ generate_calls' = generate_calls + 1
            /\ i' = 1
            /\ pc' = "walk"
            /\ result' = NoResult
            /\ UNCHANGED <<strategy, initial_cash>>
    /\ UNCHANGED dashboard

\* run(), one iteration of `for i in range(len(self.df))`
RunStep ==
    /\ pc = "walk"
    /\ i <= Len(df.Close)
    /\ LET st == WalkStep([quantity |-> quantity, cash |-> cash,
                           cash_history |-> cash_history,
                           holdings_history |-> holdings_history,
                           total_history |-> total_history],
                          df.Trade[i], df.Close[i])
       IN  /\ cash' = st.cash
           /\ quantity' = st.quantity
           /\ cash_history' = st.cash_history
           /\ holdings_history' = st.holdings_history
           /\ total_history' = st.total_history
    /\ i' = i + 1
    /\ UNCHANGED <<strategy, initial_cash, df, pc, generate_calls, result>>
    /\ UNCHANGED dashboard

\* run(), after the loop: the histories become columns
RunEnd ==
    /\ pc = "walk"
    /\ i > Len(df.Close)
    /\ df' = SetCol(SetCol(SetCol(SetCol(df,
                "Cash", cash_history),
                "Holdings", holdings_history),
                "Total", total_history),
                "Returns", ReturnsOf(total_history))
    /\ pc' = "idle"
    /\ IdleLocals
    /\ result' = Returned("run", <<>>)
    /\ UNCHANGED <<strategy, initial_cash, generate_calls>>
    /\ UNCHANGED dashboard

\* evaluate()
Evaluate ==
    /\ pc = "idle"
    /\ result' = IF df = None THEN Raised("evaluate", "TypeError")
                 ELSE IF ~HasCol(df, "Total")
                 THEN Raised("evaluate", "KeyError")
                 ELSE Returned("evaluate", EvaluateOf(df, initial_cash))
    /\ UNCHANGED <<strategy, initial_cash, df, pc, i, cash, quantity,
                   cash_history, holdings_history, total_history,
                   generate_calls>>
    /\ UNCHANGED dashboard

\* what a call of get_trade_log() by `op` comes to: without a Trade column
\* the loop body fails on its first row, and a one-row frame has no body
TradeLogResult(op) ==
    IF df = None THEN Raised(op, "TypeError")
    ELSE IF ~HasCol(df, "Trade") /\ Len(df.Close) >= 2
    THEN Raised(op, "KeyError")
    ELSE IF ~HasCol(df, "Trade") THEN Returned(op, <<>>)
    ELSE Returned(op, get_trade_log(df))

\* get_trade_log()
GetTradeLog ==
    /\ pc = "idle"
    /\ result' = TradeLogResult("get_trade_log")
    /\ UNCHANGED <<strategy, initial_cash, df, pc, i, cash, quantity,
                   cash_history, holdings_history, total_history,
                   generate_calls>>
    /\ UNCHANGED dashboard

\* evaluate_trades()
EvaluateTrades ==
    /\ pc = "idle"
    /\ LET log == TradeLogResult("evaluate_trades")
       IN  result' = IF log.raised # "" THEN log
                     ELSE EvaluateTradesOf(log.value)
    /\ UNCHANGED <<strategy, initial_cash, df, pc, i, cash, quantity,
                   cash_history, holdings_history, total_history,
                   generate_calls>>
    /\ UNCHANGED dashboard

Next ==
    \/ FetchData
    \/ Run
    \/ RunStep
    \/ RunEnd
    \/ Evaluate
    \/ GetTradeLog
    \/ EvaluateTrades

Spec == Init /\ [][Next]_vars

\* ------------------------------------------------- the RSI strategies
\* RSIStrategy(period) of src/core/strategies.py
RSIStrategies == {[kind |-> "RSI", period |-> p] : p \in 1..MaxWindow}

\* RSIStrategy(rsi_window, lower_thresh=30, upper_thresh=70) of
\* src/backtester.py
ThresholdRSIStrategies ==
    {[kind |-> "ThresholdRSI", rsi_window |-> w,
      lower_thresh |-> 30, upper_thresh |-> 70] : w \in 1..MaxWindow}

\* a strategy and the price frame it is to be given
OscillatorInit ==
    /\ \/ strategy \in RSIStrategies
       \/ strategy \in ThresholdRSIStrategies
    /\ initial_cash = 0
    /\ \E close \in CloseSeries : df = [Close |-> close]
    /\ pc = "idle"
    /\ i = 0
    /\ cash = 0
    /\ quantity = 0
    /\ cash_history = <<>>
    /\ holdings_history = <<>>
    /\ total_history = <<>>
    /\ generate_calls = 0
    /\ result = NoResult
    /\ stores = NoStores
    /\ optimizer = NoOptimizer

\* df = strategy.generate_signals(df)
GenerateSignals ==
    /\ generate_calls < MaxRuns
    /\ df' = generate_signals(strategy, df)
    /\ generate_calls' = generate_calls + 1
    /\ result' = Returned("generate_signals", <<>>)
    /\ UNCHANGED <<strategy, initial_cash, pc, i, cash, quantity,
                   cash_history, holdings_history, total_history>>
    /\ UNCHANGED dashboard

OscillatorNext == GenerateSignals

OscillatorSpec == OscillatorInit /\ [][OscillatorNext]_vars

\* ------------------------------- the Backtester of src/backtester.py
\* the index of a fetched frame: trading days, numbered, in order
DateIndexes(n) ==
    {d \in [1..n -> 1..MaxDays] :
        \A t \in 1..n : \A u \in 1..n : t < u => d[t] < d[u]}

RECURSIVE CumSumProduct(_, _, _)
\* (a * b).cumsum() at row t
CumSumProduct(a, b, t) ==
    IF t = 0 THEN 0 ELSE CumSumProduct(a, b, t - 1) + a[t] * b[t]

\* Total.pct_change(): NaN on the first row, x / 0 is +-inf and 0 / 0 NaN
PctChange(total) ==
    [t \in 1..Len(total) |->
        IF t = 1 THEN NaN
        ELSE IF total[t - 1] = 0
             THEN (IF total[t] = 0 THEN NaN
                   ELSE IF total[t] > 0 THEN Float(<<1, 0>>)
                   ELSE Float(<<-1, 0>>))
             ELSE IF total[t - 1] > 0
             THEN Float(<<total[t] - total[t - 1], total[t - 1]>>)
             ELSE Float(<<total[t - 1] - total[t], 0 - total[t - 1]>>)]

\* run(), lines 75-79: the columns computed from the strategy's frame
ScriptLedger(d, ic) ==
    LET holdings == [t \in 1..Len(d.Close) |-> d.Signal[t] * d.Close[t]]
        cash_col == [t \in 1..Len(d.Close) |->
                        ic - CumSumProduct(d.Position, d.Close, t)]
        total == [t \in 1..Len(d.Close) |-> holdings[t] + cash_col[t]]
    IN  SetCol(SetCol(SetCol(SetCol(d,
            "Holdings", holdings),
            "Cash", cash_col),
            "Total", total),
            "Returns", PctChange(total))

\* (self.df.index[-1] - self.df.index[0]).days
DaysElapsed(d) == d.Date[Len(d.Date)] - d.Date[1]

\* evaluate(), lines 81-124.  num_years = days / 365.25 is a float, and
\* 1 / num_years raises ZeroDivisionError when it is 0.0.  The cagr is
\* (final_value / initial_cash) ** (1 / num_years) - 1, kept as its base
\* and the number of years, both exact fractions; the Calmar ratio is
\* +inf or the cagr over the absolute maximum drawdown; the win rate is
\* the share of the rows with a position change whose return is positive.
\* The Sharpe ratio and the greatest daily gain and loss are floats carried
\* by the Returns column.
ScriptEvaluateOf(d, ic) ==
    LET final_value == d.Total[Len(d.Total)]
        max_drawdown == SeriesMin(DrawdownOf(d.Total))
        trades == {t \in 1..Len(d.Close) : d.Position[t] # 0}
        wins == {t \in trades :
                    ~d.Returns[t].nan /\ d.Returns[t].v[1] > 0}
    IN  IF DaysElapsed(d) = 0
        THEN Raised("evaluate", "ZeroDivisionError")
        ELSE Returned("evaluate",
                [cumulative_return |-> <<final_value - ic, ic>>,
                 max_drawdown |-> max_drawdown,
                 cagr |-> [base |-> <<final_value, ic>>,
                           num_years |-> <<100 * DaysElapsed(d), 36525>>],
                 calmar |-> [inf |-> max_drawdown[1] = 0,
                             over |-> <<0 - max_drawdown[1],
                                        max_drawdown[2]>>],
                 win_rate |-> IF trades = {} THEN <<0, 1>>
                              ELSE <<Cardinality(wins),
                                     Cardinality(trades)>>])

\* a Backtester(symbol, strategy, initial_cash) of src/backtester.py
ScriptInit ==
    /\ \/ strategy \in MACStrategies
       \/ strategy \in ThresholdRSIStrategies
    /\ initial_cash \in InitialCashes
    /\ df = None
    /\ pc = "idle"
    /\ i = 0
    /\ cash = 0
    /\ quantity = 0
    /\ cash_history = <<>>
    /\ holdings_history = <<>>
    /\ total_history = <<>>
    /\ generate_calls = 0
    /\ result = NoResult
    /\ stores = NoStores
    /\ optimizer = NoOptimizer

\* fetch_data(start, end): the Close column of the download, indexed by date
ScriptFetchData ==
    /\ df = None
    /\ \E close \in CloseSeries : \E dates \in DateIndexes(Len(close)) :
          df' = [Close |-> close, Date |-> dates]
    /\ result' = Returned("fetch_data", <<>>)
    /\ UNCHANGED <<strategy, initial_cash, pc, i, cash, quantity,
                   cash_history, holdings_history, total_history,
                   generate_calls>>
    /\ UNCHANGED dashboard

\* run(), lines 71-79
ScriptRun ==
    /\ IF RunPrecondition(df) # ""
       THEN /\ result' = Raised("run", RunPrecondition(df))
            /\ UNCHANGED <<df, generate_calls>>
       ELSE /\ generate_calls < MaxRuns
            /\ df' = ScriptLedger(generate_signals(strategy, df),
                                  initial_cash)
            /\ generate_calls' = generate_calls + 1
            /\ result' = Returned("run", <<>>)
    /\ UNCHANGED <<strategy, initial_cash, pc, i, cash, quantity,
                   cash_history, holdings_history, total_history>>
    /\ UNCHANGED dashboard

\* evaluate()
ScriptEvaluate ==
    /\ result' = IF df = None THEN Raised("evaluate", "TypeError")
                 ELSE IF ~HasCol(df, "Total")
                 THEN Raised("evaluate", "KeyError")
                 ELSE ScriptEvaluateOf(df, initial_cash)
    /\ UNCHANGED <<strategy, initial_cash, df, pc, i, cash, quantity,
                   cash_history, holdings_history, total_history,
                   generate_calls>>
    /\ UNCHANGED dashboard

ScriptNext ==
    \/ ScriptFetchData
    \/ ScriptRun
    \/ ScriptEvaluate

ScriptSpec == ScriptInit /\ [][ScriptNext]_vars

\* ------------------------------------------- dashboard: run_optimizer
MaxCombos == 4
MaxSharpe == 2

\* strategy_registry[name]["params"]: the parameter names, in order
strategy_registry ==
    ("Moving Average Crossover" :> <<"short_window", "long_window">>)
    @@ ("RSI Strategy" :> <<"period">>)

\* html.Div(text)
Div(text) == [Div |-> text]

\* the value of a number box: <<>> when it is empty (None), else <<v>>
StartBoxes == {<<v>> : v \in 1..MaxWindow}

StepBoxes == {<<>>} \cup {<<v>> : v \in (-1)..MaxWindow}

\* the Start/Stop/Step boxes of one parameter row
RowInputs == [start : StartBoxes, stop : StartBoxes, step : StepBoxes]

\* strategy-params.children for a strategy: one row per parameter, or
\* nothing rendered at all
ParamChildren(name) ==
    {<<>>} \cup [1..Len(strategy_registry[name]) -> RowInputs]

\* len(range(start, stop, step)), step # 0
RangeLen(start, stop, step) ==
    IF step > 0
    THEN (IF stop > start THEN (stop - start + step - 1) \div step ELSE 0)
    ELSE (IF start > stop
          THEN (start - stop - step - 1) \div (0 - step) ELSE 0)

\* list(range(start, stop, step))
RangeOf(start, stop, step) ==
    [k \in 1..RangeLen(start, stop, step) |-> start + (k - 1) * step]

\* lines 282-310: a row counts when its three boxes hold a value, and is
\* skipped when step == 0 or stop < start; the others give
\* param_ranges[p] = list(range(start, stop + 1, step)), in row order
ParamRangesOf(name, children) ==
    LET Kept(k) ==
            /\ children[k].start # <<>>
            /\ children[k].stop # <<>>
            /\ children[k].step # <<>>
            /\ ~(children[k].step[1] = 0
                 \/ children[k].stop[1] < children[k].start[1])
        kept == SelectSeq([k \in 1..Len(children) |-> k], Kept)
    IN  [j \in 1..Len(kept) |->
            [param |-> strategy_registry[name][kept[j]],
             values |-> RangeOf(children[kept[j]].start[1],
                                children[kept[j]].stop[1] + 1,
                                children[kept[j]].step[1])]]

RECURSIVE Product(_)
\* list(itertools.product(*value_lists)): the last list varies fastest
Product(value_lists) ==
    IF value_lists = <<>> THEN << <<>> >>
    ELSE LET rest == Product(Tail(value_lists))
             n == Len(rest)
         IN  [k \in 1..(Len(Head(value_lists)) * n) |->
                <<Head(value_lists)[((k - 1) \div n) + 1]>>
                    \o rest[((k - 1) % n) + 1]]

\* the Sharpe ratio evaluate() answers for one backtest, after
\* round(sharpe, 2).  It is mean / std * sqrt(252) of the
\* Returns column of a ledger over the provider's prices: a float that the
\* page does not control, and NaN when the Returns have no spread (0 / 0),
\* which is the case of every ledger without a trade.
Sharpes == {NaN} \cup {Float(<<50 * k, 100>>) : k \in 1..MaxSharpe}

\* x < y on floats: a comparison with NaN is False
FloatLess(x, y) ==
    ~x.nan /\ ~y.nan /\ x.v[1] * y.v[2] < y.v[1] * x.v[2]

\* the sort key of run_optimizer, r.get("Sharpe", float("-inf")): every
\* row of the grid search has the key
SharpeKey(row) == row.Sharpe

Reverse(s) == [k \in 1..Len(s) |-> s[Len(s) + 1 - k]]

RECURSIVE ExtendRun(_, _, _)
\* list.sort, count_run: the length of the run the list starts with, k
\* being the length found so far; a descending run is strictly descending
ExtendRun(a, k, descending) ==
    IF /\ k < Len(a)
       /\ FloatLess(SharpeKey(a[k + 1]), SharpeKey(a[k])) = descending
    THEN ExtendRun(a, k + 1, descending)
    ELSE k

RECURSIVE BinarySearch(_, _, _, _)
\* list.sort, binarysort: where the pivot goes among the first r elements
\* (l and r count elements from 0, as the code does)
BinarySearch(a, pivot, l, r) ==
    IF l < r
    THEN LET p == l + ((r - l) \div 2)
         IN  IF FloatLess(SharpeKey(pivot), SharpeKey(a[p + 1]))
             THEN BinarySearch(a, pivot, l, p)
             ELSE BinarySearch(a, pivot, p + 1, r)
    ELSE l

\* element number start (from 0) moved to place l
InsertAt(a, start, l) ==
    [k \in 1..Len(a) |->
        IF k <= l THEN a[k]
        ELSE IF k = l + 1 THEN a[start + 1]
        ELSE IF k <= start + 1 THEN a[k - 1]
        ELSE a[k]]

RECURSIVE BinarySort(_, _)
\* list.sort, binarysort: the first `start` elements are in order
BinarySort(a, start) ==
    IF start >= Len(a) THEN a
    ELSE BinarySort(
            InsertAt(a, start, BinarySearch(a, a[start + 1], 0, start)),
            start + 1)

\* list.sort on a list shorter than 64: one run, extended by binary
\* insertion; it calls only `<` on the keys
ListSort(a) ==
    IF Len(a) < 2 THEN a
    ELSE LET descending == FloatLess(SharpeKey(a[2]), SharpeKey(a[1]))
             k == ExtendRun(a, 2, descending)
             b == IF descending
                  THEN [j \in 1..Len(a) |->
                            IF j <= k THEN a[k + 1 - j] ELSE a[j]]
                  ELSE a
         IN  BinarySort(b, k)

\* sorted(grid_results, key=..., reverse=True): the list is reversed,
\* sorted and reversed again
SortedBySharpe(rows) == Reverse(ListSort(Reverse(rows)))

\* `for i, row in enumerate(grid_results_sorted, start=1): row["Rank"] = i`
Ranked(rows) ==
    [k \in 1..Len(rows) |->
        [params |-> rows[k].params, Sharpe |-> rows[k].Sharpe, Rank |-> k]]

\* dash.no_update leaves the property as it is
OptimizerReturns(output, best_params) ==
    /\ stores' = [stores EXCEPT !.optimization_output = output,
                                !.best_params_store = best_params]
    /\ result' = Returned("run_optimizer", <<>>)

\* run_optimizer, lines 271-319: up to the call of the grid search
RunOptimizer ==
    /\ ~optimizer.running
    /\ LET name == stores.strategy_dropdown
           children == stores.strategy_params
       IN  IF children = <<>>
           THEN /\ OptimizerReturns(Div("No strategy parameters found."),
                                    stores.best_params_store)
                /\ optimizer' = NoOptimizer
           ELSE LET param_ranges == ParamRangesOf(name, children)
                    value_lists == [k \in 1..Len(param_ranges) |->
                                       param_ranges[k].values]
                IN  IF param_ranges = <<>>
                    THEN /\ OptimizerReturns(
                               Div("Please enter valid Start/Stop/Step values for at least one parameter."),
                               stores.best_params_store)
                         /\ optimizer' = NoOptimizer
                    ELSE /\ Len(Product(value_lists)) <= MaxCombos
                         /\ optimizer' =
                               [running |-> TRUE,
                                param_ranges |-> param_ranges,
                                combos |-> Product(value_lists),
                                results |-> <<>>]
                         /\ result' = NoResult
                         /\ UNCHANGED stores
    /\ UNCHANGED <<strategy, initial_cash, df, pc, i, cash, quantity,
                   cash_history, holdings_history, total_history,
                   generate_calls>>

\* run_parameter_grid_search, one iteration of `for values in product(...)`:
\* a strategy and a Backtester of its own for the combination, fetch, run,
\* evaluate, and the row appended to results
GridSearchStep ==
    /\ optimizer.running
    /\ Len(optimizer.results) < Len(optimizer.combos)
    /\ \E sharpe \in Sharpes :
          optimizer' =
              [optimizer EXCEPT !.results =
                  Append(@, [params |-> optimizer.combos[Len(@) + 1],
                             Sharpe |-> sharpe])]
    /\ UNCHANGED <<backtester, stores>>

\* run_optimizer, lines 320-361: the grid search has returned
OptimizerEnd ==
    /\ optimizer.running
    /\ Len(optimizer.results) = Len(optimizer.combos)
    /\ IF optimizer.results = <<>>
       THEN OptimizerReturns(Div("No results returned."),
                             stores.best_params_store)
       ELSE LET grid_results_sorted ==
                    Ranked(SortedBySharpe(optimizer.results))
                best_row == grid_results_sorted[1]
            IN  OptimizerReturns(
                    [best_summary |-> best_row, table |-> grid_results_sorted],
                    [names |-> [k \in 1..Len(optimizer.param_ranges) |->
                                   optimizer.param_ranges[k].param],
                     values |-> best_row.params])
    /\ optimizer' = [optimizer EXCEPT !.running = FALSE]
    /\ UNCHANGED <<strategy, initial_cash, df, pc, i, cash, quantity,
                   cash_history, holdings_history, total_history,
                   generate_calls>>

\* no Backtester exists outside a callback
NoBacktester ==
    /\ strategy = None
    /\ initial_cash = 0
    /\ df = None
    /\ pc = "idle"
    /\ i = 0
    /\ cash = 0
    /\ quantity = 0
    /\ cash_history = <<>>
    /\ generate_calls = 0
    /\ holdings_history = <<>>
    /\ total_history = <<>>
    /\ result = NoResult

\* what an earlier optimisation of the strategy may have left in
\* best-params-store
BestParams(name) ==
    {[names |-> strategy_registry[name], values |-> v] :
        v \in [1..Len(strategy_registry[name]) -> 1..MaxWindow]}

\* the page in use: a strategy is chosen, its Start/Stop/Step boxes are
\* filled in, and best-params-store is empty or holds the parameters an
\* earlier optimisation found
OptimizerInit ==
    /\ NoBacktester
    /\ optimizer = NoOptimizer
    /\ \E name \in DOMAIN strategy_registry :
       \E children \in ParamChildren(name) :
       \E best \in {None} \cup BestParams(name) :
          stores = [NoStores EXCEPT !.strategy_dropdown = name,
                                    !.strategy_params = children,
                                    !.best_params_store = best]

OptimizerNext ==
    \/ RunOptimizer
    \/ GridSearchStep
    \/ OptimizerEnd

OptimizerSpec == OptimizerInit /\ [][OptimizerNext]_vars

\* -------------------------------------------- dashboard: run_backtest
\* Backtester(symbol, strategy): initial_cash: float = 100000 dollars
DefaultCash == 100000 * 1000

\* html.Div(f"Error: {str(e)}", style={"color": "red"})
ErrorDiv(err) == [Div |-> "Error", text |-> err]

\* strategy_info["class"](**param_values), the values being those of the
\* Start boxes
StrategyOf(name, children) ==
    IF name = "RSI Strategy"
    THEN [kind |-> "RSI", period |-> children[1].start[1]]
    ELSE [kind |-> "MAC", short_window |-> children[1].start[1],
          long_window |-> children[2].start[1]]

\* the frame of the callback's Backtester after fetch_data and run()
LedgerOf(strat, close) ==
    LET d == generate_signals(strat, [Close |-> close])
        run == RunOn(close, d.Signal, DefaultCash)
    IN  SetCol(SetCol(SetCol(SetCol(SetCol(SetCol(d,
            "Position", run.Position),
            "Trade", run.Trade),
            "Cash", run.Cash),
            "Holdings", run.Holdings),
            "Total", run.Total),
            "Returns", ReturnsOf(run.Total))

\* lines 182-220, after run(): what the rest of the try block comes to.
\* evaluate() reads Total.iloc[-1], which an empty frame does not have;
\* evaluate_trades() may raise; the figures and the trade log are built from
\* the frame.  Of the metrics the message carries the cumulative return and
\* the three trade metrics.
BacktestOutputs(d) ==
    LET trades == EvaluateTradesOf(get_trade_log(d))
    IN  IF Len(d.Close) = 0 THEN Raised("evaluate", "IndexError")
        ELSE IF trades.raised # "" THEN trades
        ELSE Returned("run_backtest",
                [equity_figure |-> [figure |-> "equity", y |-> d.Total],
                 signals_figure |->
                    [figure |-> "signals", y |-> d.Close,
                     buys |-> {t \in 1..Len(d.Close) : d.Trade[t] = 1},
                     sells |-> {t \in 1..Len(d.Close) : d.Trade[t] = -1}],
                 drawdown_figure |->
                    [figure |-> "drawdown", y |-> DrawdownOf(d.Total)],
                 metrics_string |->
                    [cum_ret |-> <<d.Total[Len(d.Total)] - DefaultCash,
                                   DefaultCash>>,
                     trades |-> trades.value],
                 trade_log |-> [rows |-> get_trade_log(d)]])

\* variant: `except ValueError`
CaughtValueErrorOnly(err) == err = "ValueError"

\* `except Exception as e` catches every exception the try block raises
Caught(err) == TRUE

\* the end of run_backtest for a try block that came to `body`: the return
\* of line 213, the return of the except clause, or the exception leaving
\* the callback with every output as it was
BacktestReturns(body) ==
    IF body.raised = ""
    THEN /\ stores' =
              [stores EXCEPT
                  !.stored_equity_figure = body.value.equity_figure,
                  !.stored_signals_figure = body.value.signals_figure,
                  !.stored_drawdown_figure = body.value.drawdown_figure,
                  !.metrics_output = body.value.metrics_string,
                  !.stored_trade_log = body.value.trade_log,
                  !.trade_log_output = body.value.trade_log]
         /\ result' = Returned("run_backtest", <<>>)
    ELSE IF Caught(body.raised)
    THEN /\ stores' =
              [stores EXCEPT
                  !.stored_equity_figure = None,
                  !.stored_signals_figure = None,
                  !.stored_drawdown_figure = None,
                  !.metrics_output = ErrorDiv(body.raised),
                  !.stored_trade_log = None,
                  !.trade_log_output = ErrorDiv(body.raised)]
         /\ result' = Returned("run_backtest", <<>>)
    ELSE /\ result' = Raised("run_backtest", body.raised)
         /\ UNCHANGED stores

\* run_backtest (a click on run-button): the strategy is built from the
\* page, the provider answers the symbol and dates with a price frame,
\* possibly empty, or the download fails
RunBacktest ==
    /\ strategy' = StrategyOf(stores.strategy_dropdown,
                              stores.strategy_params)
    /\ initial_cash' = DefaultCash
    /\ \/ \E close \in CloseSeries \cup {<<>>} :
             /\ df' = LedgerOf(strategy', close)
             /\ BacktestReturns(BacktestOutputs(df'))
       \/ /\ df' = None
          /\ BacktestReturns(Raised("fetch_data", "KeyError"))
    /\ UNCHANGED <<pc, i, cash, quantity, cash_history, holdings_history,
                   total_history, generate_calls, optimizer>>

\* the Start/Stop/Step boxes of a parameter as apply_best_params leaves
\* them
AppliedRows == {[start |-> b, stop |-> b, step |-> <<1>>] : b \in StartBoxes}

\* the page in use: a strategy is chosen and its boxes hold values
CallbackInit ==
    /\ NoBacktester
    /\ optimizer = NoOptimizer
    /\ \E name \in DOMAIN strategy_registry :
       \E children \in [1..Len(strategy_registry[name]) -> AppliedRows] :
          stores = [NoStores EXCEPT !.strategy_dropdown = name,
                                    !.strategy_params = children]

CallbackNext == RunBacktest

CallbackSpec == CallbackInit /\ [][CallbackNext]_vars

\* ---------------------------------------------------------------- claims
\* run() has returned and the frame carries its ledger
Ran == pc = "idle" /\ df # None /\ HasCol(df, "Total")

NumRows == Len(df.Close)

RECURSIVE TradeCost(_, _, _)
\* trade[1] * close[1] + ... + trade[k] * close[k]
TradeCost(trade, close, k) ==
    IF k = 0 THEN 0
    ELSE TradeCost(trade, close, k - 1) + trade[k] * close[k]

\* the quantity held in row t, after that row's trade
QuantityAt(t) == SumTo(df.Trade, t)

\* C1: in every ledger row Cash is initial_cash less the cost of the trades
\* so far, Holdings is the quantity held times Close, and Total is
\* Cash + quantity * Close; the same holds of the rows written so far while
\* the loop is running.
Conservation ==
    /\ Ran =>
        \A t \in 1..NumRows :
            /\ df.Cash[t] = initial_cash - TradeCost(df.Trade, df.Close, t)
            /\ df.Holdings[t] = QuantityAt(t) * df.Close[t]
            /\ df.Total[t] = df.Cash[t] + QuantityAt(t) * df.Close[t]
    /\ pc = "walk" =>
        /\ cash = initial_cash - TradeCost(df.Trade, df.Close, i - 1)
        /\ \A t \in 1..(i - 1) :
            /\ cash_history[t]
                 = initial_cash - TradeCost(df.Trade, df.Close, t)
            /\ total_history[t]
                 = cash_history[t] + QuantityAt(t) * df.Close[t]

\* a ledger with a Buy and a later Sell at another price
ConservationWitness ==
    /\ Ran
    /\ \E t, u \in 1..NumRows :
        /\ t < u
        /\ df.Trade[t] = 1
        /\ df.Trade[u] = -1
        /\ df.Close[t] # df.Close[u]

\* C2: once run() has set the Position column, its first row is 0 and every
\* later row is the Signal of the row before.
LagCorrectness ==
    (df # None /\ HasCol(df, "Trade")) =>
        /\ df.Signal = SignalOf(strategy, df)
        /\ df.Position[1] = 0
        /\ \A t \in 2..NumRows : df.Position[t] = df.Signal[t - 1]

\* a ledger whose signal is up on its last row, and on an earlier row
LagWitness ==
    /\ Ran
    /\ NumRows >= 3
    /\ df.Signal[NumRows] = 1
    /\ df.Position[NumRows] = 0
    /\ \E t \in 2..NumRows : df.Position[t] = 1

\* the signal column with row t changed
FlipAt(signal, t) == [signal EXCEPT ![t] = 1 - @]

\* C3: had the Signal of row t been the other one, the run on the same prices
\* would have given the same Position, Trade, Cash, Holdings and Total in
\* every row up to and including t.
NoLookAhead ==
    Ran =>
        \A t \in 1..NumRows :
            LET alt == RunOn(df.Close, FlipAt(df.Signal, t), initial_cash)
            IN  \A k \in 1..t :
                    /\ alt.Position[k] = df.Position[k]
                    /\ alt.Trade[k] = df.Trade[k]
                    /\ alt.Cash[k] = df.Cash[k]
                    /\ alt.Holdings[k] = df.Holdings[k]
                    /\ alt.Total[k] = df.Total[k]

\* a ledger in which the other signal on some row would have changed the
\* trade and the cash of the next row
NoLookAheadWitness ==
    /\ Ran
    /\ \E t \in 1..(NumRows - 1) :
        LET alt == RunOn(df.Close, FlipAt(df.Signal, t), initial_cash)
        IN  /\ alt.Trade[t + 1] # df.Trade[t + 1]
            /\ alt.Cash[t + 1] # df.Cash[t + 1]

RECURSIVE MarkToMarket(_, _)
\* sum over the rows 2..t of q(k) * (Close[k] - Close[k-1]), the first row
\* having no previous close and a quantity of 0
MarkToMarket(q(_), t) ==
    IF t <= 1 THEN 0
    ELSE MarkToMarket(q, t - 1) + q(t) * (df.Close[t] - df.Close[t - 1])

QuantityBefore(t) == QuantityAt(t - 1)

\* C4 as stated: Total[t] is initial_cash plus the price changes weighted by
\* the quantity held in each row after that row's trade.
MarkToMarketAfterTrade ==
    Ran =>
        \A t \in 1..NumRows :
            df.Total[t] = initial_cash + MarkToMarket(QuantityAt, t)

\* C4: Total[t] is initial_cash plus the price changes weighted by the
\* quantity carried into each row, that is the quantity held before that
\* row's trade.
MarkToMarketCarried ==
    Ran =>
        \A t \in 1..NumRows :
            df.Total[t] = initial_cash + MarkToMarket(QuantityBefore, t)

\* a ledger in which a share is bought on a row whose close differs from the
\* close before, and held over a later change of price
MarkToMarketWitness ==
    /\ Ran
    /\ \E t \in 2..(NumRows - 1) :
        /\ df.Trade[t] = 1
        /\ df.Close[t] # df.Close[t - 1]
        /\ df.Total[t + 1] # initial_cash

\* C5: while the loop runs the quantity held is the sum of the trades done,
\* equals the Position of the last row done and is 0 or 1; the trades sum to
\* the last Position, and a row has a trade only if its Position differs
\* from the Position before (0 before the first row).
QuantityBookkeeping ==
    /\ pc = "walk" =>
        /\ quantity = SumTo(df.Trade, i - 1)
        /\ i > 1 => quantity = df.Position[i - 1]
        /\ quantity \in {0, 1}
    /\ (df # None /\ HasCol(df, "Trade")) =>
        /\ SumTo(df.Trade, NumRows) = df.Position[NumRows]
        /\ \A t \in 1..NumRows :
            df.Trade[t] # 0 =>
                df.Position[t] # (IF t = 1 THEN 0 ELSE df.Position[t - 1])

\* the loop holds a share again after an earlier sale
QuantityWitness ==
    /\ pc = "walk"
    /\ quantity = 1
    /\ \E t \in 1..(i - 1) : df.Trade[t] = -1

\* C6: a run() on a Backtester whose frame was never loaded raises
\* ValueError, calls no strategy, starts no ledger walk and leaves df,
\* initial_cash and strategy as they were.
MissingDataRejected ==
    [][df = None =>
        /\ pc' = "idle"
        /\ generate_calls' = generate_calls
        /\ strategy' = strategy
        /\ initial_cash' = initial_cash
        /\ result'.op = "run" =>
            /\ result'.raised = "ValueError"
            /\ df' = None]_vars

\* run() was called before any data was fetched
MissingDataWitness ==
    /\ df = None
    /\ result.op = "run"
    /\ result.raised = "ValueError"
    /\ generate_calls = 0

\* evaluate() has returned its metrics for the ledger in df
Evaluated == Ran /\ result.op = "evaluate" /\ result.raised = ""

\* C7 as stated: the max_drawdown evaluate() returns lies in [-1, 0].
DrawdownBound ==
    Evaluated =>
        LET m == result.value.max_drawdown
        IN  m[2] > 0 /\ m[1] <= 0 /\ m[1] >= 0 - m[2]

\* C7: the max_drawdown evaluate() returns is at most 0, and it is at least
\* -1 exactly when no Total of the ledger is negative.
DrawdownSign ==
    Evaluated =>
        LET m == result.value.max_drawdown
        IN  /\ m[2] > 0
            /\ m[1] <= 0
            /\ m[1] >= 0 - m[2] <=> \A t \in 1..NumRows : df.Total[t] >= 0

\* evaluate() returned a drawdown strictly between -1 and 0 for a ledger
\* that ends below its peak
DrawdownWitness ==
    /\ Evaluated
    /\ result.value.max_drawdown[1] < 0
    /\ result.value.max_drawdown[1] > 0 - result.value.max_drawdown[2]
    /\ df.Total[NumRows] > 0

\* C8: a second run() on the same Backtester leaves the frame as the first
\* run left it (same rows, same Close, Signal, Position, Trade, Cash,
\* Holdings, Total and Returns), and so evaluate() and get_trade_log() give
\* what they gave before.
RerunIdempotent ==
    [][/\ (pc = "idle" /\ pc' = "walk" /\ HasCol(df, "Total")) =>
            /\ Len(df'.Close) = Len(df.Close)
            /\ df' = df
       /\ (pc = "walk" /\ pc' = "idle" /\ HasCol(df, "Total")) =>
            /\ df' = df
            /\ EvaluateOf(df', initial_cash') = EvaluateOf(df, initial_cash)
            /\ get_trade_log(df') = get_trade_log(df)]_vars

\* the crossover strategy was run twice on prices that make it buy and sell
RerunWitness ==
    /\ Ran
    /\ generate_calls = 2
    /\ strategy.kind = "MAC"
    /\ \E t \in 1..NumRows : df.Trade[t] = -1

\* get_trade_log() has returned the log of the ledger in df
Logged == Ran /\ result.op = "get_trade_log" /\ result.raised = ""

\* the log has one entry per row with a trade, in row order, a Buy for +1 and
\* a Sell for -1, alternating from a Buy
TradeLogOrder ==
    Logged =>
        LET log == result.value
        IN  /\ Len(log) = Cardinality({t \in 1..NumRows : df.Trade[t] # 0})
            /\ \A k \in 1..Len(log) :
                /\ log[k].Date \in 1..NumRows
                /\ df.Trade[log[k].Date]
                     = (IF log[k].Action = "Buy" THEN 1 ELSE -1)
                /\ log[k].Action = (IF k % 2 = 1 THEN "Buy" ELSE "Sell")
                /\ log[k].Price = Round2(df.Close[log[k].Date])
                /\ k > 1 => log[k - 1].Date < log[k].Date

\* a Buy carries no P&L and a Sell carries its logged price less the logged
\* price of the Buy before it
TradeLogPnL ==
    Logged =>
        LET log == result.value
        IN  \A k \in 1..Len(log) :
                IF log[k].Action = "Buy" THEN log[k].PnL = NoPnL
                ELSE k > 1 /\ log[k].PnL = <<log[k].Price - log[k - 1].Price>>

\* C9: the trade log pairs every Buy with the next Sell, and each Sell
\* carries P&L = its price minus the price of the Buy before it.
TradeLogPairing == TradeLogOrder /\ TradeLogPnL

\* evaluate_trades() was called on the ledger in df
TradesEvaluated == Ran /\ result.op = "evaluate_trades"

\* C10: evaluate_trades() returns (0, 0, 0) without a Sell entry; with Sell
\* entries it returns the mean P&L, the share of Sell entries with P&L > 0
\* and, when no P&L is negative, a win_loss_ratio of +inf.
TradeMetricSentinels ==
    TradesEvaluated =>
        LET pnls == PnlsOf(get_trade_log(df))
            n == Len(pnls)
            wins == Cardinality({k \in 1..n : pnls[k] > 0})
            losses == Cardinality({k \in 1..n : pnls[k] < 0})
        IN  /\ result.raised = ""
            /\ n = 0 => result.value = <<0, 0, Finite(0)>>
            /\ n > 0 =>
                /\ result.value[1] = 10 * RoundHalfEven(SumTo(pnls, n), 10 * n)
                /\ result.value[2] = RoundHalfEven(10000 * wins, n)
                /\ losses = 0 => result.value[3] = Infinity

\* run_optimizer has returned a table from a grid search
Optimized == ~optimizer.running /\ optimizer.results # <<>>

RECURSIVE LenProduct(_, _)
\* the number of combinations of the value lists after the j-th
LenProduct(ranges, j) ==
    IF j >= Len(ranges) THEN 1
    ELSE Len(ranges[j + 1].values) * LenProduct(ranges, j + 1)

\* the grid search has one result per combination of the value lists, the
\* k-th being the k-th combination in product order
GridCoverage ==
    Optimized =>
        LET ranges == optimizer.param_ranges
            res == optimizer.results
        IN  /\ Len(res) = LenProduct(ranges, 0)
            /\ \A k \in 1..Len(res) : \A j \in 1..Len(ranges) :
                  res[k].params[j] =
                      ranges[j].values[(((k - 1) \div LenProduct(ranges, j))
                                         % Len(ranges[j].values)) + 1]
            /\ \A k, m \in 1..Len(res) :
                  res[k].params = res[m].params => k = m

\* the place of a ranked row in the results of the grid search
PlaceOf(row) ==
    CHOOSE k \in 1..Len(optimizer.results) :
        optimizer.results[k].params = row.params

\* the ranked list is a permutation of the results, no row has a Sharpe
\* below that of a later row, rows of equal Sharpe keep their order, Rank
\* counts from 1 and the best parameters are those of Rank 1
RankedBySharpe ==
    Optimized =>
        LET res == optimizer.results
            rows == stores.optimization_output.table
        IN  /\ Len(rows) = Len(res)
            /\ \A k \in 1..Len(res) : \E j \in 1..Len(rows) :
                  /\ rows[j].params = res[k].params
                  /\ rows[j].Sharpe = res[k].Sharpe
            /\ \A j, k \in 1..Len(rows) :
                  j < k => ~FloatLess(rows[j].Sharpe, rows[k].Sharpe)
            /\ \A j, k \in 1..Len(rows) :
                  (j < k /\ ~rows[j].Sharpe.nan
                         /\ rows[j].Sharpe = rows[k].Sharpe)
                      => PlaceOf(rows[j]) < PlaceOf(rows[k])
            /\ \A k \in 1..Len(rows) : rows[k].Rank = k
            /\ stores.best_params_store.values = rows[1].params

\* C11: the grid search runs one backtest per combination of the Cartesian
\* product, in product order, and the ranked list is a permutation of the
\* results sorted by Sharpe descending, ties in product order, with Rank
\* 1..n and the best parameters taken from Rank 1.
GridSearchRanking == GridCoverage /\ RankedBySharpe

\* the parameter of row k of strategy-params is searched
Searched(o, k) ==
    \E j \in 1..Len(o.param_ranges) :
        o.param_ranges[j].param =
            strategy_registry[stores.strategy_dropdown][k]

\* a run_optimizer call on a page with parameter rows returns in this step
OptimizerReturning ==
    /\ result'.op = "run_optimizer"
    /\ ~optimizer'.running
    /\ stores.strategy_params # <<>>

\* C12: a parameter with step == 0 or stop < start is excluded from the
\* search, and whenever the grid has no combination run_optimizer reports
\* that no parameter has a valid range, runs no backtest, returns no
\* result and leaves the best-params store as it was.
RangeValidation ==
    [][OptimizerReturning =>
          LET o == optimizer'
              rows == stores.strategy_params
          IN  /\ \A k \in 1..Len(rows) :
                    (/\ rows[k].step # <<>>
                     /\ \/ rows[k].step[1] = 0
                        \/ rows[k].stop[1] < rows[k].start[1])
                        => ~Searched(o, k)
              /\ o.combos = <<>> =>
                    /\ stores'.optimization_output =
                          Div("Please enter valid Start/Stop/Step values for at least one parameter.")
                    /\ o.results = <<>>
                    /\ stores'.best_params_store = stores.best_params_store
                    /\ result'.raised = ""]_vars

\* generate_signals() of an RSI strategy has answered the frame in df
Oscillated == result.op = "generate_signals"

\* the window of the strategy in use
WindowOf(strat) ==
    IF strat.kind = "RSI" THEN strat.period ELSE strat.rsi_window

\* the level below which the strategy enters
LowerOf(strat) ==
    IF strat.kind = "RSI" THEN RSIEntry ELSE strat.lower_thresh

\* the level above which the strategy leaves; the core strategy has the
\* one level
UpperOf(strat) ==
    IF strat.kind = "RSI" THEN RSIEntry ELSE strat.upper_thresh

\* C13: the RSI signal is a fold over the days: 1 when the oscillator is
\* below the lower threshold, 0 when it is above the upper threshold, and
\* the signal of the day before (0 before the first day) when the
\* oscillator is between the thresholds or undefined.
OscillatorLatching ==
    Oscillated =>
        \A t \in 1..Len(df.Close) :
            df.Signal[t] =
                IF Below(df.RSI[t], LowerOf(strategy)) THEN 1
                ELSE IF Above(df.RSI[t], UpperOf(strategy)) THEN 0
                ELSE IF t = 1 THEN 0
                ELSE df.Signal[t - 1]

\* C14: on every day whose window has full history and an average loss of
\* 0, the average gain being 0 or not, the oscillator is exactly 100 and
\* no fault is raised.
ZeroLossOscillator ==
    Oscillated =>
        /\ result.raised = ""
        /\ \A t \in 1..Len(df.Close) :
              (/\ t >= WindowOf(strategy)
               /\ \A u \in (t - WindowOf(strategy) + 1)..t :
                     u > 1 => df.Close[u] >= df.Close[u - 1])
                  => df.RSI[t] = Float(<<100, 1>>)

RECURSIVE WindowTotal(_, _, _)
\* the sum of the w closes up to day t, day t first
WindowTotal(close, w, t) ==
    IF w = 0 THEN 0 ELSE close[t] + WindowTotal(close, w - 1, t - 1)

\* run() has put the signal of a crossover strategy into the frame
Crossed == df # None /\ HasCol(df, "Signal") /\ strategy.kind = "MAC"

\* the close is the same on every day
ConstantPrices == \A t \in 1..NumRows : df.Close[t] = df.Close[1]

\* C15: the crossover signal is 1 exactly on the days where both averages
\* are defined and the short one is strictly above the long one, so it is 0
\* on every warm-up day, and a run on a series shorter than the longest
\* window does not fail; on a constant price series the signal is 0 every
\* day, there is no trade, Total is initial_cash on every day, and the
\* cumulative return and the maximum drawdown are 0.
CrossoverSignal ==
    Crossed =>
        LET short == strategy.short_window
            long == strategy.long_window
        IN  /\ \A t \in 1..NumRows :
                  df.Signal[t] =
                      IF /\ t >= short
                         /\ t >= long
                         /\ WindowTotal(df.Close, short, t) * long
                              > WindowTotal(df.Close, long, t) * short
                      THEN 1 ELSE 0
            /\ \A t \in 1..NumRows :
                  (t < short \/ t < long) => df.Signal[t] = 0
            /\ result.op = "run" => result.raised = ""
            /\ ConstantPrices =>
                  /\ \A t \in 1..NumRows : df.Signal[t] = 0
                  /\ \A t \in 1..NumRows : df.Trade[t] = 0
                  /\ Ran => \A t \in 1..NumRows : df.Total[t] = initial_cash
                  /\ (Ran /\ result.op = "evaluate") =>
                        /\ result.raised = ""
                        /\ result.value.cumulative_return[1] = 0
                        /\ result.value.max_drawdown[1] = 0

\* a crossover run that has been evaluated, with a day on which the short
\* average is above the long one and a warm-up day
CrossoverWitness ==
    /\ Crossed
    /\ Ran
    /\ result.op = "evaluate"
    /\ \E t \in 1..NumRows : df.Signal[t] = 1
    /\ \E t \in 1..NumRows :
          t < strategy.short_window \/ t < strategy.long_window

\* a crossover run on a constant price series that has been evaluated
ConstantPricesWitness ==
    /\ Crossed
    /\ Ran
    /\ result.op = "evaluate"
    /\ NumRows >= 2
    /\ ConstantPrices

\* evaluate() of src/backtester.py was called on a frame that run() has
\* filled
ScriptEvaluated ==
    df # None /\ HasCol(df, "Total") /\ result.op = "evaluate"

\* C16: evaluate() does not divide by zero when the first and the last
\* price date are the same day: it returns a result, and the Calmar ratio
\* is +inf when the maximum drawdown is 0.
CagrZeroSpanGuard ==
    ScriptEvaluated =>
        /\ result.raised = ""
        /\ result.value.max_drawdown[1] = 0 => result.value.calmar.inf

\* run_backtest has been called
Clicked == result.op = "run_backtest"

\* the try block of the last run_backtest call raised: the download
\* failed, the frame was empty, or evaluate_trades() divided by zero
TryBlockRaised ==
    \/ df = None
    \/ Len(df.Close) = 0
    \/ EvaluateTradesOf(get_trade_log(df)).raised # ""

\* C17: an exception raised in the try block of run_backtest is caught; the
\* callback returns an error message for both outputs and None for the
\* three figure stores and the trade-log store, whatever they held, and
\* the exception does not leave the callback.
ErrorPropagation ==
    Clicked =>
        /\ result.raised = ""
        /\ TryBlockRaised =>
              /\ stores.stored_equity_figure = None
              /\ stores.stored_signals_figure = None
              /\ stores.stored_drawdown_figure = None
              /\ stores.stored_trade_log = None
              /\ "Div" \in DOMAIN stores.metrics_output
              /\ stores.metrics_output.Div = "Error"
              /\ stores.trade_log_output = stores.metrics_output

\* evaluate_trades() raised in the callback, on a ledger with a losing
\* round trip and no winning one
ErrorPropagationWitness ==
    /\ Clicked
    /\ df # None
    /\ Len(df.Close) > 0
    /\ EvaluateTradesOf(get_trade_log(df)).raised = "ZeroDivisionError"
    /\ stores.stored_equity_figure = None

\* C18: on every completed ledger evaluate_trades() returns a triple
\* (avg_pnl, win_rate, win_loss_ratio) and raises no division by zero, also
\* when some round trip has a negative P&L and none a positive one.
EvaluateTradesTotal ==
    TradesEvaluated =>
        /\ result.raised = ""
        /\ Len(result.value) = 3

====
